---- MODULE Spec2Model ----
(***************************************************************************)
(* Model of weibo.py: the rate limiter random_sleep, the per-user page     *)
(* iterator UserWeibo and the round-robin merger save_user_weibos.         *)
(*                                                                         *)
(* One behaviour is one call save_user_weibos(uids, f).  The network is    *)
(* the environment: every request draws its response from a small set.     *)
(* A step ends where the run can wait or be cut: at the pause of the rate  *)
(* limiter, at a network request, at each write to the output.             *)
(* KeyboardInterrupt is delivered between two steps of the run.            *)
(***************************************************************************)
EXTENDS Integers, Sequences, FiniteSets

\* ------------------------------------------------------------------ bounds
\* longest list of user ids handed to save_user_weibos
MaxUsers == 2
\* most cards the server holds for all pages of all users together
MaxCards == 2
\* most tokens of a detail document handed to get_long_weibo
MaxDoc == 4

\* statuses_count values a profile lookup may report: a negative one, and
\* 0, 1 and 3 pages
StatusCounts == {-15, 0, 5, 25}

VARIABLES
    uids,        \* argument uids of save_user_weibos
    pc,          \* position of save_user_weibos
    users,       \* the list users being built at line 230
    feeds,       \* the copies made by __iter__ that zip_longest drives
    iterators,   \* zip_longest: "feed" while driven, "repeat" once replaced
    cur,         \* zip_longest: index of the next iterator asked in this round
    pages,       \* zip_longest: values collected for the round / loop variable
    n,           \* loop variable n of enumerate(..., 1); 0 while unbound
    w,           \* generator weibos: items of this round already produced
    out,         \* records written to f, each with the part of its line written
    err,         \* exception that left save_user_weibos
    reported,    \* round number printed by the interrupt handler; 0 if none
    next_sleep,  \* random_sleep.next_sleep of the decorator of _get_page
    trace,       \* what the step just taken did: sleeps and requests, in order
    nreq,        \* page requests issued so far, per feed
    served,      \* cards the server has returned so far
    since,       \* page requests issued since the last pause of the limiter
    counts,      \* the statuses_count values the server reports in profiles
    html,        \* get_long_weibo: the detail document fetched
    result       \* get_long_weibo: how the call ended; "none" before it

vars == <<uids, pc, users, feeds, iterators, cur, pages, n, w, out, err,
          reported, next_sleep, trace, nreq, served, since, counts, html,
          result>>

\* ------------------------------------------------------------ random_sleep
\* the decorator arguments of _get_page
freq == <<1, 5>>
time == <<6, 10>>

\* random.randint(a, b): any integer of a..b
randint(r) == r[1]..r[2]

\* random_sleep.reset: the values next_sleep may take
reset == [n_steps : randint(freq), time : randint(time)]

\* sleep(seconds), as an event of a step
sleep(seconds) ==
    [op |-> "sleep", arg |-> <<seconds, 0>>, ans |-> "none", posts |-> <<>>]

\* wrapped with the test for a due pause made before the countdown is
\* decremented
wrapped_testfirst(sl) ==
    [next_sleep |-> [sl EXCEPT !.n_steps = sl.n_steps - 1],
     pause      |-> sl.n_steps = 0]

\* random_sleep.__call__.wrapped, lines 43-44, called with limiter state sl:
\* the countdown is decremented, and a pause is due if it has reached zero
wrapped(sl) ==
    LET dec == [sl EXCEPT !.n_steps = sl.n_steps - 1]
    IN  [next_sleep |-> dec, pause |-> dec.n_steps = 0]

\* --------------------------------------------------------------- responses
NoResponse == [ok |-> FALSE, kind |-> "none"]

\* what the profile lookup of a user id may answer
ProfileResponses(uid) ==
    {[ok |-> TRUE, kind |-> "profile", id |-> uid, statuses_count |-> s] :
        s \in counts}
    \cup {[ok |-> FALSE, kind |-> "profile", id |-> uid, statuses_count |-> 0]}

\* a card of a page: a post, a repost, or a card of another type
CardKinds == {[kind |-> "post", card_type |-> 9, retweeted |-> FALSE],
              [kind |-> "repost", card_type |-> 9, retweeted |-> TRUE],
              [kind |-> "other", card_type |-> 11, retweeted |-> FALSE]}

SeqsUpTo(S, k) == UNION {[1..m -> S] : m \in 0..k}

\* the cards of page p of user uid, given their kinds
Cards(uid, p, kinds) ==
    [j \in 1..Len(kinds) |->
        [kind      |-> kinds[j].kind,
         card_type |-> kinds[j].card_type,
         retweeted |-> kinds[j].retweeted,
         mblog     |-> [user |-> uid, id |-> <<p, j>>]]]

\* what the page request (uid, page) may answer when the server has at most
\* left cards left to return
PageResponses(uid, p, left) ==
    {[ok |-> TRUE, kind |-> "page", cards |-> Cards(uid, p, kinds)] :
        kinds \in SeqsUpTo(CardKinds, left)}
    \cup {[ok |-> FALSE, kind |-> "page", cards |-> <<>>]}

\* the positions, in a list of cards, of the cards the server sent as
\* original posts
Posts(cards) ==
    SelectSeq([j \in 1..Len(cards) |-> j], LAMBDA j : cards[j].kind = "post")

\* --------------------------------------------------------------- UserWeibo
NoErr == [type |-> "none", response |-> NoResponse]

\* UserWeibo.__len__: math.ceil(statuses_count / 10)
__len__(u) == (u.statuses_count + 9) \div 10

\* the builtin len(self): the value of __len__, or ValueError if that is
\* negative
len(u) == [raised |-> __len__(u) < 0, value |-> __len__(u)]

\* _is_weibo without the test for retweeted_status: reposts pass
_is_weibo_anypost(wb) == wb.card_type = 9

\* UserWeibo._is_weibo
_is_weibo(wb) == wb.card_type = 9 /\ ~wb.retweeted

_parse_weibo(mblog) == [user_id |-> mblog.user, id |-> mblog.id]

\* [f(s[j]) : j in 1..Len(s) if keep(s[j])]
RECURSIVE Comprehend(_, _)
Comprehend(s, j) ==
    IF j > Len(s) THEN <<>>
    ELSE IF _is_weibo(s[j])
         THEN <<_parse_weibo(s[j].mblog)>> \o Comprehend(s, j + 1)
         ELSE Comprehend(s, j + 1)

\* the value __next__ returns for a response: None, or the list of records
None == [none |-> TRUE, recs |-> <<>>]
List(recs) == [none |-> FALSE, recs |-> recs]

\* UserWeibo.__iter__: replace(self, _iter=True)
__iter__(u) == [u EXCEPT !._iter = TRUE]

\* UserWeibo._get_json: requests.get answers, or fails
_get_json(responses) ==
    {[raised |-> FALSE, response |-> r, exc |-> NoErr] : r \in responses}
    \cup {[raised |-> TRUE, response |-> NoResponse,
           exc |-> [type |-> "ConnectionError", response |-> NoResponse]]}

\* the page request of user uid for page p as an event: ans is "wait"
\* while the answer is outstanding, then "ok", "notok" or "raise"
get(uid, p, ans, posts) ==
    [op |-> "get", arg |-> <<uid, p>>, ans |-> ans, posts |-> posts]

\* UserWeibo._get_page(self, page), the function under the decorator: the
\* ways the request can end
_get_page(u, p, left) == _get_json(PageResponses(u.id, p, left))

\* UserWeibo.from_id(id): the ways the lookup can go
from_id(uid) ==
    {LET ev == [op |-> "lookup", arg |-> <<uid, 0>>,
                ans |-> IF o.raised THEN "raise"
                        ELSE IF o.response.ok THEN "ok" ELSE "notok",
                posts |-> <<>>]
         nobody == [id |-> uid, statuses_count |-> 0, page |-> 1,
                    _iter |-> FALSE]
     IN  IF o.raised
         THEN [event |-> ev, raised |-> TRUE, value |-> nobody, exc |-> o.exc]
         ELSE IF o.response.ok
         THEN [event  |-> ev, raised |-> FALSE,
               value  |-> [id |-> o.response.id,
                           statuses_count |-> o.response.statuses_count,
                           page |-> 1, _iter |-> FALSE],
               exc    |-> NoErr]
         ELSE \* line 81: the message of the ValueError reads cls.uid, which
              \* the class does not have: building it raises AttributeError
              [event |-> ev, raised |-> TRUE, value |-> nobody,
               exc |-> [type |-> "AttributeError", response |-> NoResponse]] :
     o \in _get_json(ProfileResponses(uid))}

\* the exhaustion test made after the request of a step instead of before
\* it: the first step always issues its request
StopIteration_after(u) ==
    u._iter /\ ~len(u).raised /\ u.page > 1 /\ u.page >= len(u).value

\* UserWeibo.__next__, line 211: the step ends the iteration
StopIteration(u) == u._iter /\ ~len(u).raised /\ u.page >= len(u).value

\* UserWeibo.__next__, line 211: len(self) raises
ValueError(u) == u._iter /\ len(u).raised

\* __next__ with the page counter advanced only after an OK response
__next___okonly(u, response) ==
    [self  |-> IF response.ok THEN [u EXCEPT !.page = u.page + 1] ELSE u,
     value |-> IF ~response.ok THEN None
               ELSE List(Comprehend(response.cards, 1))]

\* UserWeibo.__next__, lines 215-222, once _get_page has returned response:
\* the feed after the step and the value returned
__next__(u, response) ==
    [self  |-> [u EXCEPT !.page = u.page + 1],
     value |-> IF ~response.ok THEN None
               ELSE List(Comprehend(response.cards, 1))]

\* ---------------------------------------------------------- save_user_weibos
\* the generator weibos over the pages of a round: the records in order; a
\* page that is None cannot be iterated and ends the generator with TypeError
TypeErrorItem == [raise |-> TRUE, rec |-> [user_id |-> 0, id |-> <<0, 0>>]]

\* the generator with the pages of a round taken last to first
RECURSIVE weibos_rev(_)
weibos_rev(ps) ==
    IF ps = <<>> THEN <<>>
    ELSE IF ps[Len(ps)].none THEN <<TypeErrorItem>>
    ELSE [j \in 1..Len(ps[Len(ps)].recs) |->
             [raise |-> FALSE, rec |-> ps[Len(ps)].recs[j]]]
         \o weibos_rev(SubSeq(ps, 1, Len(ps) - 1))

RECURSIVE weibos(_)
weibos(ps) ==
    IF ps = <<>> THEN <<>>
    ELSE IF Head(ps).none THEN <<TypeErrorItem>>
    ELSE [j \in 1..Len(Head(ps).recs) |->
             [raise |-> FALSE, rec |-> Head(ps).recs[j]]] \o weibos(Tail(ps))

\* zip_longest: the number of iterators not yet replaced by repeat(fillvalue)
numactive == Cardinality({i \in 1..Len(iterators) : iterators[i] = "feed"})

\* the requests among the events of a step
Gets(events) == Len(SelectSeq(events, LAMBDA e : e.op = "get"))

\* -------------------------------------------------------------------- Init
Init ==
    /\ uids \in {[i \in 1..k |-> i] : k \in 0..MaxUsers}
    /\ pc = "lookup"
    /\ users = <<>>
    /\ feeds = <<>>
    /\ iterators = <<>>
    /\ cur = 1
    /\ pages = <<>>
    /\ n = 0
    /\ w = 0
    /\ out = <<>>
    /\ err = NoErr
    /\ reported = 0
    /\ next_sleep \in reset
    /\ trace = <<>>
    /\ nreq = <<>>
    /\ served = 0
    /\ since = 0
    /\ counts = StatusCounts
    /\ html = <<>>
    /\ result = "none"

\* --------------------------------------------------------------- actions
\* line 230, one element of the list: UserWeibo.from_id(uid)
Lookup ==
    /\ pc = "lookup"
    /\ Len(users) < Len(uids)
    /\ \E r \in from_id(uids[Len(users) + 1]) :
         /\ trace' = <<r.event>>
         /\ IF r.raised
            THEN /\ pc' = "error"
                 /\ err' = r.exc
                 /\ users' = users
            ELSE /\ users' = Append(users, r.value)
                 /\ UNCHANGED <<pc, err>>
    /\ UNCHANGED <<uids, feeds, iterators, cur, pages, n, w, out, reported,
                   next_sleep, nreq, served,
                   since, counts, html, result>>

\* the merge started as soon as one user is looked up, the others left out
StartMerge_early ==
    /\ pc = "lookup"
    /\ Len(users) >= 1 \/ Len(uids) = 0
    /\ feeds' = [i \in 1..Len(users) |-> __iter__(users[i])]
    /\ iterators' = [i \in 1..Len(users) |-> "feed"]
    /\ nreq' = [i \in 1..Len(users) |-> 0]
    /\ pc' = "fetch"
    /\ cur' = 1
    /\ pages' = <<>>
    /\ trace' = <<>>
    /\ UNCHANGED <<uids, users, n, w, out, err, reported, next_sleep, served,
                   since, counts, html, result>>

\* lines 231-232: the try is entered and zip_longest(*users, fillvalue=[])
\* takes iter() of every user
StartMerge ==
    /\ pc = "lookup"
    /\ Len(users) = Len(uids)
    /\ feeds' = [i \in 1..Len(users) |-> __iter__(users[i])]
    /\ iterators' = [i \in 1..Len(users) |-> "feed"]
    /\ nreq' = [i \in 1..Len(users) |-> 0]
    /\ pc' = "fetch"
    /\ cur' = 1
    /\ pages' = <<>>
    /\ trace' = <<>>
    /\ UNCHANGED <<uids, users, n, w, out, err, reported, next_sleep, served,
                   since, counts, html, result>>

\* zip_longest: no iterator is driven, because none was given or because
\* the last one has just ended: the loop is over
End ==
    /\ pc = "fetch"
    /\ numactive = 0
    /\ pc' = "done"
    /\ trace' = <<>>
    /\ UNCHANGED <<uids, users, feeds, iterators, cur, pages, n, w, out, err,
                   reported, next_sleep, nreq, served, since, counts, html,
                   result>>

\* zip_longest: the iterator asked was replaced by repeat([]) earlier
Fill ==
    /\ pc = "fetch"
    /\ numactive > 0
    /\ cur <= Len(feeds)
    /\ iterators[cur] = "repeat"
    /\ pages' = Append(pages, List(<<>>))
    /\ cur' = cur + 1
    /\ trace' = <<>>
    /\ UNCHANGED <<uids, pc, users, feeds, iterators, n, w, out, err,
                   reported, next_sleep, nreq, served, since, counts, html,
                   result>>

\* the end of a feed with its page counter advanced once more
Stop_advance ==
    /\ pc = "fetch"
    /\ cur <= Len(feeds)
    /\ iterators[cur] = "feed"
    /\ StopIteration(feeds[cur])
    /\ feeds' = [feeds EXCEPT ![cur].page = feeds[cur].page + 1]
    /\ iterators' = [iterators EXCEPT ![cur] = "repeat"]
    /\ IF numactive = 1
       THEN \* the last one: zip_longest returns without a value
            UNCHANGED <<pages, cur>>
       ELSE /\ pages' = Append(pages, List(<<>>))
            /\ cur' = cur + 1
    /\ trace' = <<>>
    /\ UNCHANGED <<uids, pc, users, n, w, out, err, reported, next_sleep,
                   nreq, served, since, counts, html, result>>

\* zip_longest: the feed asked raises StopIteration and is replaced by
\* repeat([])
Stop ==
    /\ pc = "fetch"
    /\ cur <= Len(feeds)
    /\ iterators[cur] = "feed"
    /\ StopIteration(feeds[cur])
    /\ iterators' = [iterators EXCEPT ![cur] = "repeat"]
    /\ IF numactive = 1
       THEN \* the last one: zip_longest returns without a value
            UNCHANGED <<pages, cur>>
       ELSE /\ pages' = Append(pages, List(<<>>))
            /\ cur' = cur + 1
    /\ trace' = <<>>
    /\ UNCHANGED <<uids, pc, users, feeds, n, w, out, err, reported,
                   next_sleep, nreq, served, since, counts, html, result>>

\* zip_longest: the feed asked calls len(self), which raises ValueError
LenFails ==
    /\ pc = "fetch"
    /\ cur <= Len(feeds)
    /\ iterators[cur] = "feed"
    /\ ValueError(feeds[cur])
    /\ pc' = "error"
    /\ err' = [type |-> "ValueError", response |-> NoResponse]
    /\ trace' = <<>>
    /\ UNCHANGED <<uids, users, feeds, iterators, cur, pages, n, w, out,
                   reported, next_sleep, nreq, served, since, counts, html,
                   result>>

\* the call with the countdown moved by the first feed only
Call_ownpace ==
    /\ pc = "fetch"
    /\ cur <= Len(feeds)
    /\ iterators[cur] = "feed"
    /\ ~StopIteration(feeds[cur])
    /\ ~ValueError(feeds[cur])
    /\ LET c == wrapped(next_sleep)
       IN  /\ next_sleep' = IF cur = 1 THEN c.next_sleep ELSE next_sleep
           /\ IF c.pause
              THEN \* line 45: sleep(self.next_sleep['time']) begins
                   /\ pc' = "sleep"
                   /\ trace' = <<sleep(c.next_sleep.time)>>
                   /\ UNCHANGED <<nreq, since>>
              ELSE \* line 47: fn is called, the request is sent
                   /\ pc' = "get"
                   /\ trace' = <<get(feeds[cur].id, feeds[cur].page, "wait",
                                     <<>>)>>
                   /\ nreq' = [nreq EXCEPT ![cur] = nreq[cur] + 1]
                   /\ since' = since + 1
    /\ UNCHANGED <<uids, users, feeds, iterators, cur, pages, n, w, out, err,
                   reported, served, counts, html, result>>

\* zip_longest: the feed asked goes on to _get_page, lines 214 and 43-47:
\* the countdown of the limiter is decremented; then the pause begins if one
\* is due, else the request is sent
Call ==
    /\ pc = "fetch"
    /\ cur <= Len(feeds)
    /\ iterators[cur] = "feed"
    /\ ~StopIteration(feeds[cur])
    /\ ~ValueError(feeds[cur])
    /\ LET c == wrapped(next_sleep)
       IN  /\ next_sleep' = c.next_sleep
           /\ IF c.pause
              THEN \* line 45: sleep(self.next_sleep['time']) begins
                   /\ pc' = "sleep"
                   /\ trace' = <<sleep(c.next_sleep.time)>>
                   /\ UNCHANGED <<nreq, since>>
              ELSE \* line 47: fn is called, the request is sent
                   /\ pc' = "get"
                   /\ trace' = <<get(feeds[cur].id, feeds[cur].page, "wait",
                                     <<>>)>>
                   /\ nreq' = [nreq EXCEPT ![cur] = nreq[cur] + 1]
                   /\ since' = since + 1
    /\ UNCHANGED <<uids, users, feeds, iterators, cur, pages, n, w, out, err,
                   reported, served, counts, html, result>>

\* the pause taken instead of the request: after it the call returns
\* nothing and the wrapped function is not run
Wake_skip ==
    /\ pc = "sleep"
    /\ next_sleep' \in reset
    /\ pc' = "fetch"
    /\ pages' = Append(pages, None)
    /\ cur' = cur + 1
    /\ trace' = trace
    /\ UNCHANGED <<uids, users, feeds, iterators, n, w, out, err, reported,
                   nreq, served, since, counts, html, result>>

\* lines 45-47: the pause is over, next_sleep is redrawn and the request is
\* sent
Wake ==
    /\ pc = "sleep"
    /\ next_sleep' \in reset
    /\ pc' = "get"
    /\ trace' = Append(trace, get(feeds[cur].id, feeds[cur].page, "wait",
                                  <<>>))
    /\ nreq' = [nreq EXCEPT ![cur] = nreq[cur] + 1]
    /\ since' = 1
    /\ UNCHANGED <<uids, users, feeds, iterators, cur, pages, n, w, out, err,
                   reported, served, counts, html, result>>

\* the answer with one page counter kept for all feeds
Response_shared ==
    /\ pc = "get"
    /\ \E o \in _get_page(feeds[cur], feeds[cur].page, MaxCards - served) :
         IF o.raised
         THEN /\ pc' = "error"
              /\ err' = o.exc
              /\ trace' = [trace EXCEPT ![Len(trace)].ans = "raise"]
              /\ UNCHANGED <<feeds, pages, cur, served>>
         ELSE LET r == __next__(feeds[cur], o.response)
              IN  /\ feeds' = [i \in 1..Len(feeds) |->
                                 [feeds[i] EXCEPT !.page = r.self.page]]
                  /\ pages' = Append(pages, r.value)
                  /\ cur' = cur + 1
                  /\ pc' = "fetch"
                  /\ served' = served + Len(o.response.cards)
                  /\ trace' = [trace EXCEPT ![Len(trace)] =
                                  get(feeds[cur].id, feeds[cur].page,
                                      IF o.response.ok THEN "ok" ELSE "notok",
                                      Posts(o.response.cards))]
                  /\ err' = err
    /\ UNCHANGED <<uids, users, iterators, n, w, out, reported, next_sleep,
                   nreq, since, counts, html, result>>

\* lines 47 and 214-222: the request ends; on an answer the page counter
\* advances and the value of the step goes to zip_longest
Response ==
    /\ pc = "get"
    /\ \E o \in _get_page(feeds[cur], feeds[cur].page, MaxCards - served) :
         IF o.raised
         THEN /\ pc' = "error"
              /\ err' = o.exc
              /\ trace' = [trace EXCEPT ![Len(trace)].ans = "raise"]
              /\ UNCHANGED <<feeds, pages, cur, served>>
         ELSE LET r == __next__(feeds[cur], o.response)
              IN  /\ feeds' = [feeds EXCEPT ![cur] = r.self]
                  /\ pages' = Append(pages, r.value)
                  /\ cur' = cur + 1
                  /\ pc' = "fetch"
                  /\ served' = served + Len(o.response.cards)
                  /\ trace' = [trace EXCEPT ![Len(trace)] =
                                  get(feeds[cur].id, feeds[cur].page,
                                      IF o.response.ok THEN "ok" ELSE "notok",
                                      Posts(o.response.cards))]
                  /\ err' = err
    /\ UNCHANGED <<uids, users, iterators, n, w, out, reported, next_sleep,
                   nreq, since, counts, html, result>>

\* zip_longest yields the round; enumerate binds n, the loop body starts
Yield ==
    /\ pc = "fetch"
    /\ numactive > 0
    /\ cur > Len(feeds)
    /\ n' = n + 1
    /\ pc' = "write"
    /\ w' = 0
    /\ trace' = <<>>
    /\ UNCHANGED <<uids, users, feeds, iterators, cur, pages, out, err,
                   reported, next_sleep, nreq, served, since, counts, html,
                   result>>

\* records dumped as soon as their page has arrived, while the other feeds of
\* the round are still to be asked
DumpBegin_early ==
    /\ pc \in {"fetch", "write"}
    /\ w < Len(weibos(pages))
    /\ ~weibos(pages)[w + 1].raise
    /\ out' = Append(out, [round |-> n, line |-> weibos(pages)[w + 1].rec,
                           part |-> "some"])
    /\ pc' = "dump"
    /\ trace' = <<>>
    /\ UNCHANGED <<uids, users, feeds, iterators, cur, pages, n, w, err,
                   reported, next_sleep, nreq, served, since, counts, html,
                   result>>

\* line 235: json.dump starts on the next record of the round and has
\* written the first pieces of its text
DumpBegin ==
    /\ pc = "write"
    /\ w < Len(weibos(pages))
    /\ ~weibos(pages)[w + 1].raise
    /\ out' = Append(out, [round |-> n, line |-> weibos(pages)[w + 1].rec,
                           part |-> "some"])
    /\ pc' = "dump"
    /\ trace' = <<>>
    /\ UNCHANGED <<uids, users, feeds, iterators, cur, pages, n, w, err,
                   reported, next_sleep, nreq, served, since, counts, html,
                   result>>

\* lines 235-237: json.dump has written the whole text of the record
DumpEnd ==
    /\ pc = "dump"
    /\ out' = [out EXCEPT ![Len(out)].part = "json"]
    /\ pc' = "newline"
    /\ UNCHANGED <<uids, users, feeds, iterators, cur, pages, n, w, err,
                   reported, next_sleep, trace, nreq, served, since, counts,
                   html, result>>

\* line 238: f.write('\n') ends the line
WriteNewline ==
    /\ pc = "newline"
    /\ out' = [out EXCEPT ![Len(out)].part = "line"]
    /\ w' = w + 1
    /\ pc' = "write"
    /\ UNCHANGED <<uids, users, feeds, iterators, cur, pages, n, err,
                   reported, next_sleep, trace, nreq, served, since, counts,
                   html, result>>

\* line 233: the generator reaches a page that is None
PageNone ==
    /\ pc = "write"
    /\ w < Len(weibos(pages))
    /\ weibos(pages)[w + 1].raise
    /\ pc' = "error"
    /\ err' = [type |-> "TypeError", response |-> NoResponse]
    /\ trace' = <<>>
    /\ UNCHANGED <<uids, users, feeds, iterators, cur, pages, n, w, out,
                   reported, next_sleep, nreq, served, since, counts, html,
                   result>>

\* the generator is exhausted: back to zip_longest for the next round
EndRound ==
    /\ pc = "write"
    /\ w = Len(weibos(pages))
    /\ pc' = "fetch"
    /\ cur' = 1
    /\ pages' = <<>>
    /\ trace' = <<>>
    /\ UNCHANGED <<uids, users, feeds, iterators, n, w, out, err, reported,
                   next_sleep, nreq, served, since, counts, html, result>>

\* KeyboardInterrupt: outside the try while the users are looked up, and
\* handled at lines 239-240 once the try has been entered, wherever the run
\* is: between two calls, in the pause, waiting for an answer, between two
\* writes
Interrupt ==
    /\ pc \in {"lookup", "fetch", "sleep", "get", "write", "dump", "newline"}
    /\ IF pc = "lookup"
       THEN /\ pc' = "error"
            /\ err' = [type |-> "KeyboardInterrupt", response |-> NoResponse]
            /\ reported' = reported
       ELSE IF n = 0
       THEN \* the f-string reads n, which no round has bound yet
            /\ pc' = "error"
            /\ err' = [type |-> "UnboundLocalError", response |-> NoResponse]
            /\ reported' = reported
       ELSE /\ pc' = "interrupted"
            /\ reported' = n
            /\ err' = err
    /\ trace' = <<>>
    /\ UNCHANGED <<uids, users, feeds, iterators, cur, pages, n, w, out,
                   next_sleep, nreq, served, since, counts, html, result>>

Next ==
    \/ Lookup
    \/ StartMerge
    \/ End
    \/ Fill
    \/ Stop
    \/ LenFails
    \/ Call
    \/ Wake
    \/ Response
    \/ Yield
    \/ DumpBegin
    \/ DumpEnd
    \/ WriteNewline
    \/ PageNone
    \/ EndRound
    \/ Interrupt

Spec == Init /\ [][Next]_vars

\* save_user_weibos run on two users whose profiles report -15, 5 or 35
\* posts: two feeds of up to three page requests each, six requests in one
\* run
InitPace ==
    /\ uids = <<1, 2>>
    /\ pc = "lookup"
    /\ users = <<>>
    /\ feeds = <<>>
    /\ iterators = <<>>
    /\ cur = 1
    /\ pages = <<>>
    /\ n = 0
    /\ w = 0
    /\ out = <<>>
    /\ err = NoErr
    /\ reported = 0
    /\ next_sleep \in reset
    /\ trace = <<>>
    /\ nreq = <<>>
    /\ served = 0
    /\ since = 0
    /\ counts = {-15, 5, 35}
    /\ html = <<>>
    /\ result = "none"

SpecPace == InitPace /\ [][Next]_vars

\* ------------------------------------------------------------ get_long_weibo
\* A detail document is a sequence of tokens, each standing for a text:
\*   "S"  "status":           "H"  "hotScheme"        "K"  "k":
\*   "W"  the object of a post, with all the fields _parse_weibo reads
\*   "V"  null                ","  ,                  "}"  }
\* Slicing can cut a token; what is left of it is one of
\*   "Q"  "status" or "k", a key without its colon: a JSON string
\*   "Wp" the object of a post cut short: it still holds a comma
\*   "J"  any other remainder of several characters, "J1" one of one character
Tokens == {"S", "H", "K", "W", "V", ",", "}"}

\* str.find: the first position of token t, -1 if there is none
find(s, t) ==
    IF \E i \in 1..Len(s) : s[i] = t
    THEN CHOOSE i \in 1..Len(s) : s[i] = t /\ \A j \in 1..(i - 1) : s[j] # t
    ELSE -1

\* str.rfind for a text found in the tokens of ts: the last such position
rfind(s, ts) ==
    IF \E i \in 1..Len(s) : s[i] \in ts
    THEN CHOOSE i \in 1..Len(s) :
             s[i] \in ts /\ \A j \in (i + 1)..Len(s) : s[j] \notin ts
    ELSE -1

\* html[-1:], the slice taken when find returned -1: the last character
LastChar(s) ==
    IF s = <<>> THEN <<>>
    ELSE LET t == s[Len(s)]
         IN  IF t \in {",", "}", "J1"} THEN <<t>>
             ELSE IF t = "W" THEN <<"}">>
             ELSE <<"J1">>

\* html[:-1], the slice taken when rfind returned -1: all but the last
\* character
DropLast(s) ==
    IF s = <<>> THEN <<>>
    ELSE LET t == s[Len(s)]
             front == SubSeq(s, 1, Len(s) - 1)
         IN  IF t \in {",", "}", "J1"} THEN front
             ELSE IF t \in {"W", "Wp"} THEN Append(front, "Wp")
             ELSE IF t \in {"S", "K"} THEN Append(front, "Q")
             ELSE Append(front, "J")

\* lines 178-180: the text between the first "status": and the last comma
\* before the last "hotScheme"
Slice(doc) ==
    LET i    == find(doc, "S")
        tail == IF i = -1 THEN LastChar(doc) ELSE SubSeq(doc, i, Len(doc))
        h    == rfind(tail, {"H"})
        t0   == IF h = -1 THEN DropLast(tail) ELSE SubSeq(tail, 1, h - 1)
        c    == rfind(t0, {",", "W", "Wp"})
    IN  IF c = -1 THEN DropLast(t0)
        ELSE IF t0[c] = "," THEN SubSeq(t0, 1, c - 1)
        ELSE \* the last comma lies inside the object of a post
             Append(SubSeq(t0, 1, c - 1), "J")

\* json.loads('{' + text + '}'): does the text parse, as the members
\* key value, key value, ... of an object
loads(text) ==
    \/ text = <<>>
    \/ /\ Len(text) % 3 = 2
       /\ \A j \in 1..Len(text) :
             /\ j % 3 = 1 => text[j] \in {"S", "K"}
             /\ j % 3 = 2 => text[j] \in {"W", "V", "Q", "H"}
             /\ j % 3 = 0 => text[j] = ","

\* UserWeibo.get_long_weibo on a document: a record returned, or the
\* exception raised
get_long_weibo(doc) ==
    LET text == Slice(doc)
        keys == {j \in 1..Len(text) : j % 3 = 1 /\ text[j] = "S"}
    IN  IF ~loads(text) THEN "JSONDecodeError"
        ELSE IF keys = {} THEN "KeyError"
        ELSE LET last == CHOOSE j \in keys : \A k \in keys : k <= j
             IN  IF text[last + 1] = "W" THEN "record" ELSE "TypeError"

\* get_long_weibo called on its own, for any document of up to MaxDoc tokens
InitLong ==
    /\ uids = <<>>
    /\ pc = "idle"
    /\ users = <<>>
    /\ feeds = <<>>
    /\ iterators = <<>>
    /\ cur = 1
    /\ pages = <<>>
    /\ n = 0
    /\ w = 0
    /\ out = <<>>
    /\ err = NoErr
    /\ reported = 0
    /\ next_sleep \in reset
    /\ trace = <<>>
    /\ nreq = <<>>
    /\ served = 0
    /\ since = 0
    /\ counts = StatusCounts
    /\ html \in SeqsUpTo(Tokens, MaxDoc)
    /\ result = "none"

\* the call of get_long_weibo on the document fetched
GetLong ==
    /\ pc = "idle"
    /\ result = "none"
    /\ result' = get_long_weibo(html)
    /\ UNCHANGED <<uids, pc, users, feeds, iterators, cur, pages, n, w, out,
                   err, reported, next_sleep, trace, nreq, served, since,
                   counts, html>>

NextLong == GetLong

SpecLong == InitLong /\ [][NextLong]_vars

\* ------------------------------------------------------------------ claims
Exhausted(i) == iterators[i] = "repeat"

\* C1: a feed that signals exhaustion has issued exactly total_pages page
\* requests (3 for statuses_count = 25), all of them answered.
C1_ExactlyTotalPages ==
    \A i \in 1..Len(feeds) :
        Exhausted(i) => nreq[i] = __len__(feeds[i])

\* C2: when the run over two users with statuses_count = 5 each is done, the
\* output holds records of the first user followed by records of the second.
C2_BothUsersWritten ==
    (/\ pc = "done"
     /\ Len(users) = 2
     /\ \A i \in 1..2 : users[i].statuses_count = 5)
    => \E a, b \in 1..Len(out) :
          /\ a < b
          /\ out[a].line.user_id = uids[1]
          /\ out[b].line.user_id = uids[2]

\* C3: two feeds of p1 < p2 pages (p1 at least 1) end after exactly p2
\* rounds.
C3_RoundsOfLongerFeed ==
    (/\ pc = "done"
     /\ Len(feeds) = 2
     /\ 1 <= __len__(feeds[1])
     /\ __len__(feeds[1]) < __len__(feeds[2]))
    => n = __len__(feeds[2])

FeedIndex(uid) == CHOOSE i \in 1..Len(uids) : uids[i] = uid

Key(e) == <<e.round, FeedIndex(e.line.user_id), e.line.id[2]>>

LexLess(x, y) ==
    \/ x[1] < y[1]
    \/ x[1] = y[1] /\ x[2] < y[2]
    \/ x[1] = y[1] /\ x[2] = y[2] /\ x[3] < y[3]

\* C4: the lines of the output are in the order of (round, feed index in
\* uids, card index in the page): line a is before line b exactly when its
\* triple is lexicographically smaller.
C4_OutputOrder ==
    \A a, b \in 1..Len(out) :
        (a < b) <=> LexLess(Key(out[a]), Key(out[b]))

\* two feeds have each written a record in the same round
C4_Witness ==
    /\ Len(out) = 2
    /\ out[1].round = out[2].round
    /\ out[1].line.user_id # out[2].line.user_id

\* C5: a page request answered non-OK is not fatal: the merge does not end
\* in the TypeError of a page that cannot be iterated.
C5_NonOkNotFatal ==
    ~(pc = "error" /\ err.type = "TypeError")

\* C6: the merge has ended, normally or on a page it could not handle, only
\* with every feed exhausted: no feed is left with current_page < total_pages.
C6_EndsOnlyExhausted ==
    (pc = "done" \/ (pc = "error" /\ err.type = "TypeError"))
    => \A i \in 1..Len(feeds) : feeds[i].page >= __len__(feeds[i])

\* C7: an interrupt at any point of the merge, the fetching of the first
\* round included, stops the run with a round number reported, no exception
\* and the output as it was.
C7_InterruptStopsCleanly ==
    [][(pc \in {"fetch", "sleep", "get", "write", "dump", "newline"}
        /\ Interrupt)
       => (/\ pc' = "interrupted"
           /\ reported' >= 1
           /\ err'.type = "none"
           /\ out' = out)]_vars

\* C8: a profile lookup answered non-OK fails with the ValueError built for
\* it, and that error carries the raw response.
C8_UserNotFound ==
    (/\ trace # <<>>
     /\ trace[1].op = "lookup"
     /\ trace[1].ans = "notok")
    => (/\ pc = "error"
        /\ err.type = "ValueError"
        /\ err.response.kind = "profile"
        /\ ~err.response.ok)

\* C9: a call of the rate-limited _get_page runs the request exactly once,
\* after the pause if one was due and never instead of it, and hands on what
\* the request gave: its failure as the failure of the step, its answer as
\* the page of the step.  (A call cut by KeyboardInterrupt is over.)
C9_WrappedRunsOnce ==
    /\ []((trace # <<>> /\ trace[1].op # "lookup")
           => LET g == trace[Len(trace)]
              IN  /\ Gets(trace) <= 1
                  /\ \A k \in 1..(Len(trace) - 1) : trace[k].op = "sleep"
                  /\ pc = "sleep" <=> g.op = "sleep"
                  /\ pc = "get" <=> (g.op = "get" /\ g.ans = "wait")
                  /\ g.ans = "raise"
                       => (pc = "error" /\ err = [type |-> "ConnectionError",
                                                 response |-> NoResponse])
                  /\ g.ans = "notok" => (pc = "fetch" /\ pages[Len(pages)].none)
                  /\ g.ans = "ok" => (pc = "fetch" /\ ~pages[Len(pages)].none))
    /\ [][(pc = "sleep" /\ ~Interrupt)
            => (pc' = "get" /\ Gets(trace') = 1 /\ pages' = pages)]_vars
    /\ [][(pc = "get" /\ ~Interrupt)
            => (Gets(trace') = 1 /\ nreq' = nreq
                /\ trace'[Len(trace')].ans \in {"ok", "notok", "raise"})]_vars

\* a call on which a pause was due has paused and then run the request
C9_Witness ==
    /\ Len(trace) = 2
    /\ trace[1].op = "sleep"
    /\ trace[2].op = "get"
    /\ trace[2].ans = "ok"

\* C10: between calls next_steps is in 1..5 and next_delay in 6..10; a call
\* decrements next_steps by one, and exactly the calls that bring it to zero
\* pause, for the delay drawn at the previous redraw, and then redraw both
\* values.  The countdown is 0 only during the pause, or after a run that
\* was cut in the pause; it is never negative.
C10_Countdown ==
    /\ [](/\ next_sleep.time \in 6..10
          /\ next_sleep.n_steps \in 0..5
          /\ pc \in {"lookup", "fetch", "get", "write", "dump", "newline",
                     "done"} => next_sleep.n_steps \in 1..5)
    /\ [][(pc = "fetch" /\ pc' \in {"sleep", "get"})
            => /\ next_sleep' = [n_steps |-> next_sleep.n_steps - 1,
                                 time    |-> next_sleep.time]
               /\ pc' = "sleep" <=> next_sleep.n_steps = 1
               /\ pc' = "sleep" => trace' = <<sleep(next_sleep.time)>>]_vars
    /\ [][(pc = "sleep" /\ pc' = "get")
            => next_sleep' \in [n_steps : 1..5, time : 6..10]]_vars
    /\ [][(next_sleep' # next_sleep)
            => (pc = "fetch" /\ pc' \in {"sleep", "get"})
               \/ (pc = "sleep" /\ pc' = "get")]_vars

\* a call has just paused and the countdown was redrawn
C10_Witness ==
    /\ trace # <<>>
    /\ trace[1].op = "sleep"
    /\ next_sleep.n_steps \in 1..5

\* the feed that zip_longest asks next is driven and not at its end
AsksFeed ==
    /\ pc = "fetch"
    /\ cur <= Len(feeds)
    /\ iterators[cur] = "feed"
    /\ ~StopIteration(feeds[cur])
    /\ ~ValueError(feeds[cur])

\* C11: a step of a feed that does not signal exhaustion issues exactly one
\* page request, for the feed's own user id and its current page, which is
\* one more than the number of requests the feed has issued before; after an
\* OK and after a non-OK response the page counter is one higher.  Only a
\* request that has got no response (pending, failed or cut) leaves the
\* counter behind.
C11_OneRequestPerStep ==
    /\ [](\A i \in 1..Len(feeds) :
              /\ feeds[i].page \in {nreq[i], nreq[i] + 1}
              /\ feeds[i].page = nreq[i]
                   => (i = cur /\ pc \in {"get", "error", "interrupted"})
              /\ (i = cur /\ pc = "get") => feeds[i].page = nreq[i])
    /\ [][(AsksFeed /\ ~Interrupt) => pc' \in {"sleep", "get"}]_vars
    /\ [][(pc' = "get" /\ pc # "get")
            => /\ pc \in {"fetch", "sleep"}
               /\ nreq' = [nreq EXCEPT ![cur] = nreq[cur] + 1]
               /\ trace'[Len(trace')].arg = <<uids[cur], feeds[cur].page>>
               /\ feeds[cur].page = nreq[cur] + 1]_vars
    /\ [][(nreq' # nreq /\ Len(nreq') = Len(nreq)) => pc' = "get"]_vars
    /\ [][(pc = "get" /\ ~Interrupt)
            => IF trace'[Len(trace')].ans \in {"ok", "notok"}
               THEN /\ feeds'[cur].page = feeds[cur].page + 1
                    /\ pc' = "fetch"
                    /\ Len(pages') = Len(pages) + 1
               ELSE pc' = "error"]_vars

\* a feed has got a non-OK answer and its page counter has advanced
C11_Witness ==
    /\ pc = "fetch"
    /\ cur > 1
    /\ trace # <<>>
    /\ trace[Len(trace)].op = "get"
    /\ trace[Len(trace)].ans = "notok"
    /\ feeds[cur - 1].page = trace[Len(trace)].arg[2] + 1

\* C12: the exhaustion test comes before the request of a step: a feed of 0
\* total pages has issued no request and holds no page, and no request ever
\* asks for a page number above the total pages of its feed.
C12_CheckBeforeRequest ==
    /\ \A i \in 1..Len(feeds) :
          __len__(feeds[i]) <= 0 => (nreq[i] = 0 /\ feeds[i].page = 1)
    /\ \A k \in 1..Len(trace) :
          trace[k].op = "get"
            => trace[k].arg[2] <= __len__(feeds[FeedIndex(trace[k].arg[1])])
    /\ \A i \in 1..Len(feeds) : nreq[i] <= IF __len__(feeds[i]) > 0
                                          THEN __len__(feeds[i]) ELSE 0

\* a feed of 0 total pages was asked and ended without a request, while
\* another feed has issued one
C12_Witness ==
    \E i, j \in 1..Len(feeds) :
        /\ __len__(feeds[i]) = 0
        /\ Exhausted(i)
        /\ nreq[i] = 0
        /\ nreq[j] > 0

\* some page request has been issued
Requested == \E i \in 1..Len(nreq) : nreq[i] > 0

\* C13: once the merge runs, a page request is issued or a line is written,
\* every user id has been looked up, in input order; a lookup never follows
\* a request or a line; and a run that failed in a lookup has issued no
\* request and written no line.
C13_LookupsFirst ==
    /\ (pc \in {"fetch", "sleep", "get", "write", "dump", "newline"}
        \/ Requested \/ out # <<>>)
         => /\ Len(users) = Len(uids)
            /\ \A i \in 1..Len(users) : users[i].id = uids[i]
    /\ (trace # <<>> /\ trace[1].op = "lookup")
         => /\ ~Requested
            /\ out = <<>>
            /\ trace[1].arg[1] = uids[IF trace[1].ans = "ok"
                                      THEN Len(users) ELSE Len(users) + 1]
    /\ (pc = "error" /\ Len(users) < Len(uids))
         => (~Requested /\ out = <<>>)

\* the second of two lookups has failed after the first succeeded
C13_Witness ==
    /\ pc = "error"
    /\ Len(uids) = 2
    /\ Len(users) = 1
    /\ trace # <<>>
    /\ trace[1].op = "lookup"
    /\ trace[1].ans = "notok"

\* C14: exhaustion is terminal. The step in which a feed ends iteration
\* issues no request and leaves its page counter unchanged; an exhausted feed
\* would end iteration again if asked; and from then on the feed stays
\* exhausted, its page counter and its count of requests never change.
C14_ExhaustionTerminal ==
    /\ [](\A i \in 1..Len(feeds) : Exhausted(i) => StopIteration(feeds[i]))
    /\ [][\A i \in 1..Len(feeds) :
            /\ (~Exhausted(i) /\ Exhausted(i)')
                 => /\ trace' = <<>>
                    /\ feeds'[i] = feeds[i]
                    /\ nreq' = nreq
                    /\ next_sleep' = next_sleep
            /\ Exhausted(i)
                 => /\ Exhausted(i)'
                    /\ feeds'[i] = feeds[i]
                    /\ nreq'[i] = nreq[i]]_vars

\* the first feed is exhausted, and in a later round the second feed has
\* just been asked for a page
C14_Witness ==
    /\ Len(feeds) = 2
    /\ Exhausted(1)
    /\ ~Exhausted(2)
    /\ n >= 1
    /\ pc = "fetch"
    /\ cur = 3
    /\ trace # <<>>
    /\ trace[Len(trace)].op = "get"
    /\ trace[Len(trace)].arg[1] = uids[2]

\* page requests issued so far by the feeds 1..i together
RECURSIVE Total(_)
Total(i) == IF i = 0 THEN 0 ELSE nreq[i] + Total(i - 1)

\* C15: pacing is global.  Counting the page requests of all feeds together,
\* at most 5 requests have been issued since the last pause at any moment;
\* a pause lasts 6..10 seconds, comes directly before the request of its
\* step, and at least one request lies between it and the pause before it.
C15_GlobalPacing ==
    /\ [](since \in 0..freq[2] /\ since <= Total(Len(nreq)))
    /\ [][(nreq' # nreq /\ Len(nreq') = Len(nreq))
            => IF trace'[1].op = "sleep"
               THEN /\ trace'[1].arg[1] \in randint(time)
                    /\ Len(trace') = 2
                    /\ trace'[2].op = "get"
                    /\ since' = 1
                    /\ Total(Len(nreq)) > 0 => since \in 1..freq[2]
               ELSE /\ since' = since + 1
                    /\ Total(Len(nreq))' = Total(Len(nreq)) + 1]_vars

\* five requests, of two feeds, have been issued since the last pause and
\* the next request is due to pause
C15_Witness ==
    /\ since = 5
    /\ Len(nreq) = 2
    /\ nreq[1] = 3
    /\ nreq[2] = 2
    /\ next_sleep.n_steps = 1
    /\ pc = "fetch"
    /\ cur = 2

\* the feed at cur is taking a step while another feed is still driven
StepsBesideOthers ==
    /\ \/ pc = "fetch" /\ cur <= Len(feeds) /\ iterators[cur] = "feed"
       \/ pc \in {"sleep", "get"}
    /\ \E i \in 1..Len(feeds) : i # cur /\ iterators[i] = "feed"

\* C16, as stated: a step of one feed leaves the page counter and profile of
\* every other feed unchanged, and the state of the rate limiter as well.
C16_NothingShared ==
    [][(StepsBesideOthers /\ ~Interrupt)
        => /\ \A i \in 1..Len(feeds) : i # cur => feeds'[i] = feeds[i]
           /\ users' = users
           /\ next_sleep' = next_sleep]_vars

\* C16, amended: a step of one feed leaves the page counter, the profile,
\* the iteration state and the request count of every other feed unchanged
\* and writes nothing; the countdown of the rate limiter is shared by all
\* feeds, and a step changes it only on its way to its page request: by the
\* decrement, and by the redraw after a pause.
C16_OnlyLimiterShared ==
    [][(StepsBesideOthers /\ ~Interrupt)
        => /\ \A i \in 1..Len(feeds) :
                 i # cur => /\ feeds'[i] = feeds[i]
                            /\ iterators'[i] = iterators[i]
                            /\ nreq'[i] = nreq[i]
           /\ users' = users
           /\ out' = out
           /\ (next_sleep' # next_sleep)
                => \/ /\ pc = "fetch"
                      /\ pc' \in {"sleep", "get"}
                      /\ next_sleep' = [next_sleep EXCEPT !.n_steps = @ - 1]
                   \/ /\ pc = "sleep"
                      /\ pc' = "get"
                      /\ next_sleep' \in reset
           /\ (nreq'[cur] = nreq[cur] + 1) => pc' = "get"]_vars

\* the first feed has advanced to page 2 by a request that moved the
\* countdown, the second feed is still at page 1 and is asked next
C16_Witness ==
    /\ Len(feeds) = 2
    /\ pc = "fetch"
    /\ cur = 2
    /\ iterators[2] = "feed"
    /\ feeds[1].page = 2
    /\ feeds[2].page = 1
    /\ trace # <<>>
    /\ trace[Len(trace)].op = "get"
    /\ trace[Len(trace)].arg = <<uids[1], 1>>

\* C17: after an OK page response the value of the step is a list holding
\* one record for each card the server sent as an original post (card_type 9
\* without retweeted_status), in the order of the cards, and nothing for a
\* repost or a card of another type.
C17_PostsOnly ==
    (/\ pc = "fetch"
     /\ trace # <<>>
     /\ trace[Len(trace)].op = "get"
     /\ trace[Len(trace)].ans = "ok")
    => LET g == trace[Len(trace)]
           page == pages[Len(pages)]
       IN  /\ ~page.none
           /\ Len(page.recs) = Len(g.posts)
           /\ \A k \in 1..Len(g.posts) :
                 page.recs[k] = [user_id |-> g.arg[1],
                                 id |-> <<g.arg[2], g.posts[k]>>]

\* the first page requested held two cards, of which only the second was an
\* original post, and gave one record
C17_Witness ==
    /\ pc = "fetch"
    /\ trace # <<>>
    /\ trace[Len(trace)].op = "get"
    /\ trace[Len(trace)].ans = "ok"
    /\ trace[Len(trace)].posts = <<2>>
    /\ served = 2
    /\ Total(Len(nreq)) = 1
    /\ Len(pages[Len(pages)].recs) = 1

\* the document lacks the "status": marker or the "hotScheme" marker
LacksMarker ==
    \/ \A i \in 1..Len(html) : html[i] # "S"
    \/ \A i \in 1..Len(html) : html[i] # "H"

\* C18: extraction on a document that lacks one of the two markers ends in
\* the format error of the extraction, the failure to parse as JSON: it
\* returns no record and ends in no other exception.
C18_MissingMarkerFormatError ==
    (result # "none" /\ LacksMarker) => result = "JSONDecodeError"

\* C19: the records of a round are written only after every feed has been
\* asked in that round.  While a round is being fetched nothing is written
\* and no record of its pages is in the output; a line is written only with
\* all feeds asked; every line written belongs to a round already yielded.
\* So a run that ends during the fetching of a round has written none of
\* that round's records.
C19_WrittenAfterRound ==
    /\ [](\A a \in 1..Len(out) :
              /\ out[a].round <= n
              /\ out[a].line.id[1] = out[a].round)
    /\ []((cur <= Len(feeds))
            => \A k \in 1..Len(pages) : \A j \in 1..Len(pages[k].recs) :
                  \A a \in 1..Len(out) : out[a].line # pages[k].recs[j])
    /\ [][(pc \in {"fetch", "sleep", "get"}) => out' = out]_vars
    /\ [][out' # out
            => /\ pc \in {"write", "dump", "newline"}
               /\ cur = Len(feeds) + 1
               /\ Len(pages) = Len(feeds)]_vars

\* the run was interrupted in its second round with the first feed asked,
\* its page counter advanced to 3 and its record pending; the output holds
\* the one record of the first round only
C19_Witness ==
    /\ pc = "interrupted"
    /\ n = 1
    /\ Len(feeds) = 2
    /\ cur = 2
    /\ feeds[1].page = 3
    /\ Len(pages) = 1
    /\ Len(pages[1].recs) = 1
    /\ Len(out) = 1
    /\ out[1].round = 1

====
